---- MODULE Spec2Model ----
(***************************************************************************)
(* BayesOpt: the non-parametric surrogate (src/src/nonparametricprocess.cpp), *)
(* the kernel factory and kernel model (src/src/kernel_functors.cpp), and   *)
(* the resumable optimisation loop driven by the save/restore test program. *)
(*                                                                         *)
(* Three specifications share the variables:                               *)
(*   Spec        the surrogate's sample store, Cholesky factor and cache   *)
(*   SpecFactory the surrogate factory and the kernel factory              *)
(*   SpecLoop    the optimisation loop, its snapshot and the test driver   *)
(***************************************************************************)
EXTENDS Integers, Sequences, FiniteSets, TLC

(***************************************************************************)
(* Bounds of the model.                                                    *)
(***************************************************************************)
MaxSamples == 3     \* most inputs the surrogate stores
MaxDesign == 2      \* longest design handed to setSamples
NumX == 2           \* inputs are the grid points 0..NumX-1
NumY == 3           \* observations are 0..NumY-1

XVals == 0 .. (NumX - 1)
YVals == 0 .. (NumY - 1)

VARIABLES
  \* ---- NonParametricProcess
  exited,        \* the process ended in exit(EXIT_FAILURE)
  mRegularizer,  \* parameters.noise, the nugget
  mGPXX,         \* stored inputs
  mGPY,          \* stored outputs
  mMinIndex,     \* 0-based index of the smallest output seen
  mMaxIndex,     \* 0-based index of the largest output seen
  mMeanV,        \* mean at every stored input
  mFeatM,        \* feature matrix, one column per stored input
  mL,            \* Cholesky factor, one row per factorised input
  cache,         \* what the last precomputePrediction ran on, and its result
  lastOp,        \* the last call on the surrogate and what it returned
  \* ---- NonParametricProcess::create and KernelModel
  s_ptr,         \* what create returned: the class of the object, or "NULL"
  ctorExit,      \* a constructor ended the process in exit(EXIT_FAILURE)
  mKernel,       \* the kernel installed in the KernelModel (<<>>: none)
  leaked,        \* kernel nodes allocated and owned by nobody
  argOrder,      \* the order in which the build evaluates two call arguments
  lastF,         \* the last factory call and how it ended
  \* ---- the optimisation loop and the save/restore test program
  par,           \* the parameters the test program runs with
  ref,           \* an optimiser run without interruption
  branin1,       \* the test's first optimiser, stopped and saved
  branin2,       \* the test's second optimiser, restored and resumed
  state,         \* the BOptState written by saveOptimization
  pcA, iA,       \* the uninterrupted run: where it is, its loop counter
  pcB, iB,       \* the test program: where it is, its loop counter
  lastL,         \* the last call on an optimiser
  \* ---- BayesOptDiscrete
  disc,          \* the discrete optimiser
  pcD,           \* where its optimize() is
  \* ---- NonParametricProcess::setMean
  mMean,         \* the mean function object: its name, or "NULL"
  mMu,           \* coefficient means
  mS_Mu,         \* coefficient standard deviations
  lastM,         \* the last setMean call and what it returned
  \* ---- ISOkernel / ARDkernel
  kind,          \* the kernel's base class: "ISO" or "ARD"
  kdim,          \* the input dimension the kernel was configured for
  mTheta,        \* ISO: the length-scale; ARD: the vector of length-scales
  lastK          \* the last setScale call and how it ended

surrVars == <<exited, mRegularizer, mGPXX, mGPY, mMinIndex, mMaxIndex,
              mMeanV, mFeatM, mL, cache, lastOp>>

factVars == <<s_ptr, ctorExit, mKernel, leaked, argOrder, lastF>>

loopVars == <<par, ref, branin1, branin2, state, pcA, iA, pcB, iB, lastL>>

discVars == <<disc, pcD>>

meanVars == <<mMean, mMu, mS_Mu, lastM>>

kernVars == <<kind, kdim, mTheta, lastK>>

vars == <<surrVars, factVars, loopVars, discVars, meanVars, kernVars>>

notSurr == <<factVars, loopVars, discVars, meanVars, kernVars>>
notFact == <<surrVars, loopVars, discVars, meanVars, kernVars>>
notLoop == <<surrVars, factVars, discVars, meanVars, kernVars>>
notDisc == <<surrVars, factVars, loopVars, meanVars, kernVars>>
notMean == <<surrVars, factVars, loopVars, discVars, kernVars>>
notKern == <<surrVars, factVars, loopVars, discVars, meanVars>>

(***************************************************************************)
(* Helpers.                                                                *)
(***************************************************************************)
Abs(a) == IF a < 0 THEN 0 - a ELSE a

\* The designs setSamples is given: a matrix x (one row per point) and a
\* vector y of the same length.
Designs ==
  UNION {[xs : [1 .. k -> XVals], ys : [1 .. k -> YVals]] : k \in 0 .. MaxDesign}

(***************************************************************************)
(* Kernel values.  A stationary kernel (SEIso: exp(-r^2/2)) is largest at  *)
(* r = 0 and strictly smaller at any other distance; the values are kept   *)
(* on an integer scale that preserves that order.                          *)
(***************************************************************************)
Corr(x1, x2) == NumX - Abs(x1 - x2)

\* NonParametricProcess::computeSelfCorrelation
ComputeSelfCorrelation(q) == Corr(q, q)

\* NonParametricProcess::computeCrossCorrelation: against the inputs stored
\* at the time of the call.
ComputeCrossCorrelationAppended(XX, q) ==
  [i \in 1 .. (Len(XX) + 1) |-> Corr(Append(XX, q)[i], q)]

ComputeCrossCorrelation(XX, q) == [i \in 1 .. Len(XX) |-> Corr(XX[i], q)]

\* KernelModel::computeCorrMatrix: row ii holds k(x_ii, x_jj) for jj < ii and
\* k(x_ii, x_ii) + nugget on the diagonal (the lower triangle, row by row).
ComputeCorrMatrix(XX, nugget) ==
  [ii \in 1 .. Len(XX) |->
     [jj \in 1 .. ii |->
        IF jj < ii THEN Corr(XX[ii], XX[jj]) ELSE Corr(XX[ii], XX[ii]) + nugget]]

(***************************************************************************)
(* The Cholesky primitives.  A factor row keeps the correlation row it was *)
(* built from and whether its pivot is positive.  For a positive definite  *)
(* kernel the pivot of a new row is lost exactly when the new input has a  *)
(* correlation with an earlier input as large as its own regularised       *)
(* self-correlation, or when an earlier pivot was already lost.            *)
(***************************************************************************)
PivotPositive(v) == \A j \in 1 .. (Len(v) - 1) : v[j] < v[Len(v)]

FactorPositive(L) == \A i \in 1 .. Len(L) : L[i].pos

\* utils::cholesky_add_row(L, v): no return value.
CholeskyAddRow(L, v) ==
  Append(L, [v |-> v, pos |-> FactorPositive(L) /\ PivotPositive(v)])

RECURSIVE DecomposeRows(_, _)
DecomposeRows(K, n) ==
  IF n = 0 THEN <<>>
  ELSE CholeskyAddRow(DecomposeRows(K, n - 1), K[n])

\* utils::cholesky_decompose(K, L): 0, or 1 + the 0-based row whose pivot is
\* not positive.
CholeskyDecompose(K) ==
  LET L == DecomposeRows(K, Len(K))
      bad == {i \in 1 .. Len(L) : ~L[i].pos}
  IN [L |-> L,
      error |-> IF bad = {} THEN 0
                ELSE CHOOSE i \in bad : \A j \in bad : i <= j]

(***************************************************************************)
(* The parametric mean.                                                    *)
(***************************************************************************)
GetMean(x) == 0
GetFeatures(x) == <<1>>

(***************************************************************************)
(* checkBoundsY(i).  An index left behind by an earlier, longer output     *)
(* vector reads past the end of mGPY: the value read is then arbitrary.    *)
(***************************************************************************)
ReadY(Y, i) == IF i < Len(Y) THEN {Y[i + 1]} ELSE (0 - 1) .. NumY

CheckBoundsY(Y, mn, mx, i) ==
  {IF a > Y[i + 1] THEN <<i, mx>>
   ELSE IF b < Y[i + 1] THEN <<mn, i>>
   ELSE <<mn, mx>> : a \in ReadY(Y, mn), b \in ReadY(Y, mx)}

\* The loop of setSamples: checkBoundsY(0), ..., checkBoundsY(n-1).
RECURSIVE CheckBoundsAll(_, _, _, _)
CheckBoundsAll(Y, mn, mx, n) ==
  IF n = 0 THEN {<<mn, mx>>}
  ELSE UNION {CheckBoundsY(Y, p[1], p[2], n - 1) :
                p \in CheckBoundsAll(Y, mn, mx, n - 1)}

(***************************************************************************)
(* Results of the virtual calls the base class makes into its subclasses.  *)
(***************************************************************************)
PredErrors == {0 - 1, 0, 1}   \* precomputePrediction()
KernErrors == {0 - 1, 0}      \* updateKernelParameters()

NoArg == 0 - 1

Op(op, x, y, returned, ret) ==
  [op |-> op, x |-> x, y |-> y, returned |-> returned, ret |-> ret]

(***************************************************************************)
(* State after construction: NonParametricProcess(dim, parameters).        *)
(***************************************************************************)
InitSurrogate ==
  /\ exited = FALSE
  /\ mRegularizer \in {0, 1}
  /\ mGPXX = <<>>
  /\ mGPY = <<>>
  /\ mMinIndex = 0
  /\ mMaxIndex = 0
  /\ mMeanV = <<>>
  /\ mFeatM = <<>>
  /\ mL = <<>>
  /\ cache = [rows |-> 0, error |-> 0]
  /\ lastOp = Op("new", NoArg, NoArg, TRUE, 0)

(***************************************************************************)
(* setSamples(x, y)                                                        *)
(***************************************************************************)
SetSamples(d) ==
  /\ ~exited
  /\ Len(mGPXX) + Len(d.xs) <= MaxSamples
  /\ mGPY' = d.ys
  /\ mGPXX' = mGPXX \o d.xs
  /\ \E p \in CheckBoundsAll(d.ys, mMinIndex, mMaxIndex, Len(d.xs)) :
       /\ mMinIndex' = p[1]
       /\ mMaxIndex' = p[2]
  /\ mMeanV' = [i \in 1 .. Len(mGPXX') |-> GetMean(mGPXX'[i])]
  /\ mFeatM' = [i \in 1 .. Len(mGPXX') |-> GetFeatures(mGPXX'[i])]
  /\ lastOp' = Op("setSamples", NoArg, NoArg, TRUE, 0)
  /\ UNCHANGED <<exited, mRegularizer, mL, cache>>

(***************************************************************************)
(* addSample(x, y): the changes it makes to the sample store.              *)
(***************************************************************************)
AddedXX(x) == Append(mGPXX, x)
AddedY(y) == Append(mGPY, y)
AddedBoundsSkipped(y) == {<<mMinIndex, mMaxIndex>>}
AddedBounds(y) == CheckBoundsY(AddedY(y), mMinIndex, mMaxIndex, Len(mGPY))
AddedMeanV(x) == Append(mMeanV, GetMean(x))
AddedFeatM(x) == Append(mFeatM, GetFeatures(x))

AddSampleEffect(x, y) ==
  /\ mGPXX' = AddedXX(x)
  /\ mGPY' = AddedY(y)
  /\ \E p \in AddedBounds(y) :
       /\ mMinIndex' = p[1]
       /\ mMaxIndex' = p[2]
  /\ mMeanV' = AddedMeanV(x)
  /\ mFeatM' = AddedFeatM(x)

AddSample(x, y) ==
  /\ ~exited
  /\ Len(mGPXX) < MaxSamples
  /\ AddSampleEffect(x, y)
  /\ lastOp' = Op("addSample", x, y, TRUE, 0)
  /\ UNCHANGED <<exited, mRegularizer, mL, cache>>

(***************************************************************************)
(* addNewPointToCholesky(correlation, selfcorrelation): always returns 0.  *)
(***************************************************************************)
AddNewPointToCholesky(L, correlation, selfcorrelation) ==
  [L |-> CholeskyAddRow(L, Append(correlation, selfcorrelation)), error |-> 0]

(***************************************************************************)
(* updateSurrogateModel(Xnew, Ynew).  perr is what precomputePrediction    *)
(* returns.  The call is modelled where it is defined: its assertion reads *)
(* mGPXX[1], and cholesky_add_row reads one entry per factor row, so two   *)
(* inputs are stored and the factor has a row for each stored input.       *)
(***************************************************************************)
UpdateSurrogateModel(x, y, perr) ==
  /\ ~exited
  /\ Len(mGPXX) < MaxSamples
  /\ Len(mGPXX) >= 2
  /\ Len(mL) = Len(mGPXX)
  /\ LET newK == ComputeCrossCorrelation(mGPXX, x)
         selfCorrelation == ComputeSelfCorrelation(x) + mRegularizer
         added == AddNewPointToCholesky(mL, newK, selfCorrelation)
     IN /\ AddSampleEffect(x, y)
        /\ mL' = added.L
        /\ cache' = [rows |-> Len(added.L), error |-> perr]
        /\ IF perr < 0
           THEN /\ exited' = TRUE
                /\ lastOp' = Op("update", x, y, FALSE, 0)
           ELSE /\ exited' = FALSE
                /\ lastOp' = Op("update", x, y, TRUE, 0)
  /\ UNCHANGED mRegularizer

(***************************************************************************)
(* precomputeSurrogate(): computeCholeskyCorrelation, then                 *)
(* precomputePrediction; either failing ends the process.                  *)
(***************************************************************************)
PrecomputeSurrogate(XX, perr) ==
  LET dec == CholeskyDecompose(ComputeCorrMatrix(XX, mRegularizer))
  IN IF dec.error # 0
     THEN [exit |-> TRUE, L |-> dec.L, cache |-> cache, error |-> dec.error]
     ELSE IF perr # 0
     THEN [exit |-> TRUE, L |-> dec.L,
           cache |-> [rows |-> Len(dec.L), error |-> perr], error |-> perr]
     ELSE [exit |-> FALSE, L |-> dec.L,
           cache |-> [rows |-> Len(dec.L), error |-> perr], error |-> perr]

\* fitSurrogateModel() on the inputs XX; kerr is what updateKernelParameters
\* returns.
FitEffect(op, XX, x, y, kerr, perr) ==
  LET pre == PrecomputeSurrogate(XX, perr)
  IN /\ mL' = pre.L
     /\ cache' = pre.cache
     /\ exited' = pre.exit
     /\ lastOp' = IF pre.exit THEN Op(op, x, y, FALSE, 0)
                  ELSE Op(op, x, y, TRUE, kerr + pre.error)

FitSurrogateModel(kerr, perr) ==
  /\ ~exited
  /\ FitEffect("fit", mGPXX, NoArg, NoArg, kerr, perr)
  /\ UNCHANGED <<mRegularizer, mGPXX, mGPY, mMinIndex, mMaxIndex, mMeanV, mFeatM>>

\* fitSurrogateModel(Xnew, Ynew): addSample, then fitSurrogateModel().  Its
\* assertion reads mGPXX[1] as that of updateSurrogateModel does.
FitSurrogateModelXY(x, y, kerr, perr) ==
  /\ ~exited
  /\ Len(mGPXX) < MaxSamples
  /\ Len(mGPXX) >= 2
  /\ AddSampleEffect(x, y)
  /\ FitEffect("fitxy", AddedXX(x), x, y, kerr, perr)
  /\ UNCHANGED mRegularizer

(***************************************************************************)
(* getSample / getLastSample.                                              *)
(***************************************************************************)
GetSample(index) == <<mGPXX[index + 1], mGPY[index + 1]>>

GetLastSample ==
  LET last == Len(mGPY) - 1
  IN <<mGPXX[last + 1], mGPY[last + 1]>>

(***************************************************************************)
(* The surrogate's specification.                                          *)
(***************************************************************************)
DoSetSamples == (\E d \in Designs : SetSamples(d)) /\ UNCHANGED notSurr
DoAddSample == (\E x \in XVals, y \in YVals : AddSample(x, y)) /\ UNCHANGED notSurr
DoUpdate ==
  /\ \E x \in XVals, y \in YVals, perr \in PredErrors : UpdateSurrogateModel(x, y, perr)
  /\ UNCHANGED notSurr
DoFit ==
  /\ \E kerr \in KernErrors, perr \in PredErrors : FitSurrogateModel(kerr, perr)
  /\ UNCHANGED notSurr
DoFitXY ==
  /\ \E x \in XVals, y \in YVals, kerr \in KernErrors, perr \in PredErrors :
       FitSurrogateModelXY(x, y, kerr, perr)
  /\ UNCHANGED notSurr

(***************************************************************************)
(* KernelFactory.  A kernel name expression is kept as parseExpresion      *)
(* splits it: <<os, os1, os2>>, the operator name and its two operand      *)
(* expressions, <<>> for an empty string.                                  *)
(***************************************************************************)
MaxDepth == 2       \* deepest kernel expression given to the factory
MaxLeaked == 3      \* most unowned kernel nodes the model counts

\* KernelFactory::KernelFactory: the registered names.
Registry ==
  {"kConst", "kLinear", "kLinearARD", "kHamming",
   "kMaternISO1", "kMaternISO3", "kMaternISO5",
   "kMaternARD1", "kMaternARD3", "kMaternARD5",
   "kPoly1", "kPoly2", "kPoly3", "kPoly4", "kPoly5", "kPoly6",
   "kSEARD", "kSEISO", "kRQISO", "kSum", "kProd"}

\* The names the expressions of the model are written with: an atomic kernel,
\* a combined kernel, and a name that is not registered.
AtomicNames == {"kSEISO"}
CombinedNames == {"kSum"}
UnknownNames == {"kBogus"}

Atom(n) == <<n, <<>>, <<>>>>

RECURSIVE Exprs(_)
Exprs(d) ==
  IF d = 0 THEN {}
  ELSE LET sub == Exprs(d - 1)
       IN {Atom(n) : n \in AtomicNames \cup UnknownNames}
            \cup {<<n, a, b>> : n \in CombinedNames \cup UnknownNames, a \in sub, b \in sub}

KernelExprs == Exprs(MaxDepth)

RECURSIVE HasUnregistered(_)
HasUnregistered(e) ==
  IF e = <<>> THEN FALSE
  ELSE e[1] \notin Registry \/ HasUnregistered(e[2]) \/ HasUnregistered(e[3])

RECURSIVE Nodes(_)
Nodes(e) == IF e = <<>> THEN 0 ELSE 1 + Nodes(e[2]) + Nodes(e[3])

\* KernelFactory::create(name, input_dim).  The result: whether a kernel was
\* returned (otherwise std::invalid_argument was thrown), the kernel, and
\* the number of nodes the call allocated that are still allocated when it
\* ends.  The node of a registered name is allocated before its operands are
\* built; the operands are two arguments of one call, built in the order
\* the build chose.
RECURSIVE Create(_, _)
Create(name, order) ==
  LET os == IF name = <<>> THEN "" ELSE name[1]
      os1 == IF name = <<>> THEN <<>> ELSE name[2]
      os2 == IF name = <<>> THEN <<>> ELSE name[3]
  IN IF os \notin Registry
     THEN [ok |-> FALSE, k |-> <<>>, live |-> 0]
     ELSE IF os1 = <<>> /\ os2 = <<>>
     THEN [ok |-> TRUE, k |-> Atom(os), live |-> 1]
     ELSE LET r1 == Create(IF order = "lr" THEN os1 ELSE os2, order)
          IN IF ~r1.ok
             THEN [ok |-> FALSE, k |-> <<>>, live |-> 1 + r1.live]
             ELSE LET r2 == Create(IF order = "lr" THEN os2 ELSE os1, order)
                  IN IF ~r2.ok
                     THEN [ok |-> FALSE, k |-> <<>>, live |-> 1 + r1.live + r2.live]
                     ELSE [ok |-> TRUE,
                           k |-> IF order = "lr" THEN <<os, r1.k, r2.k>>
                                 ELSE <<os, r2.k, r1.k>>,
                           live |-> 1 + r1.live + r2.live]

FOp(op, name, outcome, ctor, bad, allocs) ==
  [op |-> op, name |-> name, outcome |-> outcome, ctor |-> ctor, bad |-> bad,
   allocs |-> allocs]

\* KernelModel::setKernel(thetav, stheta, k_name, dim): the kernel it leaves
\* installed, the nodes it leaves unowned, and whether it threw.
SetKernelResult(k_name) ==
  LET r == Create(k_name, argOrder)
  IN IF r.ok
     THEN [threw |-> FALSE, mKernel |-> r.k, leaked |-> leaked, allocs |-> 0]
     ELSE [threw |-> TRUE, mKernel |-> mKernel, leaked |-> leaked + r.live,
           allocs |-> r.live]

SetKernel(k_name) ==
  LET r == SetKernelResult(k_name)
  IN /\ ~ctorExit
     /\ s_ptr # "NULL"
     /\ r.leaked <= MaxLeaked
     /\ mKernel' = r.mKernel
     /\ leaked' = r.leaked
     /\ lastF' = FOp("setKernel", "", IF r.threw THEN "threw" ELSE "returned",
                     FALSE, HasUnregistered(k_name), r.allocs)
     /\ UNCHANGED <<s_ptr, ctorExit, argOrder>>

(***************************************************************************)
(* NonParametricProcess::create(dim, parameters).                          *)
(***************************************************************************)
\* The names create is called with: the five surrogate names and two others.
SurrNameInputs ==
  {"sGaussianProcess", "sGaussianProcessML", "sGaussianProcessNormal",
   "sStudentTProcessJef", "sStudentTProcessNIG", "sBogus", ""}

\* The mean names a surrogate is constructed with, and those the mean
\* factory knows.
MeanNameInputs == {"mZero", "mBogus"}
MeanRegistry == {"mZero", "mOne", "mConst", "mLinear", "mLinearConst"}

\* setMean: -1 when the mean factory returns NULL.
SetMeanError(m_name) == IF m_name \in MeanRegistry THEN 0 ELSE 0 - 1

\* A create whose sStudentTProcessJef branch constructs a class of its own.
SurrogateClassJefOwn(name) ==
  IF name = "sGaussianProcess" THEN "GaussianProcess"
  ELSE IF name = "sGaussianProcessML" THEN "GaussianProcessML"
  ELSE IF name = "sGaussianProcessNormal" THEN "GaussianProcessNormal"
  ELSE IF name = "sStudentTProcessJef" THEN "StudentTProcessJef"
  ELSE IF name = "sStudentTProcessNIG" THEN "StudentTProcessNIG"
  ELSE "NULL"

\* The if-chain of create: the class constructed for a name, "NULL" for none.
SurrogateClass(name) ==
  IF name = "sGaussianProcess" THEN "GaussianProcess"
  ELSE IF name = "sGaussianProcessML" THEN "GaussianProcessML"
  ELSE IF name = "sGaussianProcessNormal" THEN "GaussianProcessNormal"
  ELSE IF name = "sStudentTProcessJef" THEN "StudentTProcessNIG"
  ELSE IF name = "sStudentTProcessNIG" THEN "StudentTProcessNIG"
  ELSE "NULL"

\* create: the name is looked at first; for a known name the constructor
\* runs: KernelModel(dim, parameters) installs the kernel (and may throw),
\* then setMean, whose error ends the process.  The owner of the previous
\* surrogate releases it, and its kernel, when it takes the new pointer.
CreateSurrogate(name, k_name, m_name) ==
  LET class == SurrogateClass(name)
      r == SetKernelResult(k_name)
  IN /\ ~ctorExit
     /\ IF class = "NULL"
        THEN /\ s_ptr' = "NULL"
             /\ mKernel' = <<>>
             /\ lastF' = FOp("create", name, "returned", FALSE, FALSE, 0)
             /\ UNCHANGED <<ctorExit, leaked>>
        ELSE IF r.threw
        THEN /\ r.leaked <= MaxLeaked
             /\ leaked' = r.leaked
             /\ lastF' = FOp("create", name, "threw", TRUE, HasUnregistered(k_name), r.allocs)
             /\ UNCHANGED <<s_ptr, mKernel, ctorExit>>
        ELSE IF SetMeanError(m_name) # 0
        THEN /\ ctorExit' = TRUE
             /\ mKernel' = r.mKernel
             /\ lastF' = FOp("create", name, "exited", TRUE, HasUnregistered(k_name), 0)
             /\ UNCHANGED <<s_ptr, leaked>>
        ELSE /\ s_ptr' = class
             /\ mKernel' = r.mKernel
             /\ lastF' = FOp("create", name, "returned", TRUE, HasUnregistered(k_name), 0)
             /\ UNCHANGED <<ctorExit, leaked>>
     /\ UNCHANGED argOrder

InitFactory ==
  /\ s_ptr = "NULL"
  /\ ctorExit = FALSE
  /\ mKernel = <<>>
  /\ leaked = 0
  /\ argOrder \in {"lr", "rl"}
  /\ lastF = FOp("none", "", "returned", FALSE, FALSE, 0)

\* The factory variables while the surrogate alone is looked at.
FactoryIdle ==
  /\ s_ptr = "GaussianProcess"
  /\ ctorExit = FALSE
  /\ mKernel = Atom("kSEISO")
  /\ leaked = 0
  /\ argOrder = "lr"
  /\ lastF = FOp("create", "sGaussianProcess", "returned", TRUE, FALSE, 0)

DoCreateSurrogate ==
  /\ \E name \in SurrNameInputs, k_name \in KernelExprs, m_name \in MeanNameInputs :
       CreateSurrogate(name, k_name, m_name)
  /\ UNCHANGED notFact

DoSetKernel == (\E k_name \in KernelExprs : SetKernel(k_name)) /\ UNCHANGED notFact

\* The surrogate variables while the factories alone are looked at.
SurrogateIdle == InitSurrogate /\ mRegularizer = 0



(***************************************************************************)
(* The optimisation loop.  Inputs are the points of a 2 x 2 grid of the    *)
(* unit square; the random engine is a linear congruential generator.      *)
(***************************************************************************)
MaxIter == 3        \* largest n_iterations
MaxInit == 2        \* largest n_init_samples
MaxSeed == 1        \* largest random_seed
ForceJump == 1      \* force_jump: stuck iterations before a random jump

PointOf(n) == <<n % 2, (n \div 2) % 2>>
Points == {PointOf(n) : n \in 0 .. 3}
IndexOf(x) == x[1] + 2 * x[2]

\* The objective of the test, BraninNormalized, on the grid.
Objective(x) == Abs(2 * x[1] - x[2] - 1)

NextRng(r) == (5 * r + 3) % 8

\* The engine's state after seeding: random_seed when it is not negative,
\* anything otherwise.
SeedRngAny(seed) == 0 .. 7
SeedRng(seed) == IF seed >= 0 THEN {seed % 8} ELSE 0 .. 7

RECURSIVE SumSeq(_)
SumSeq(q) == IF q = <<>> THEN 0 ELSE q[Len(q)] + SumSeq(SubSeq(q, 1, Len(q) - 1))

Count(q, v) == Cardinality({i \in 1 .. Len(q) : q[i] = v})

\* The parameters of a run.
Params ==
  [n_iterations : 1 .. MaxIter,
   n_init_samples : 1 .. MaxInit,
   n_iter_relearn : {0, 2},
   random_seed : (0 - 1) .. MaxSeed]

\* An optimiser as constructed: BraninNormalized(par).
NewOptimizer(p, r) ==
  [st |-> "Uninitialised", par |-> p, mCurrentIter |-> 0, mCounterStuck |-> 0,
   mYPrev |-> 0, mX |-> <<>>, mY |-> <<>>, rng |-> r, hp |-> 0, mu |-> 0,
   evals |-> 0]

NoOptimizer == [NewOptimizer(CHOOSE p \in Params : TRUE, 0) EXCEPT !.st = "None"]

\* Hyperparameter learning: the kernel hyperparameter and the mean
\* coefficient fitted to the samples.
LearnHp(X, Y) == (SumSeq(Y) + Len(X)) % 3
LearnMu(Y) == IF Y = <<>> THEN 0 ELSE SumSeq(Y) \div Len(Y)

\* The initial design: n points drawn with the engine.
RECURSIVE Design(_, _)
Design(r, n) ==
  IF n = 0 THEN [X |-> <<>>, rng |-> r]
  ELSE LET d == Design(r, n - 1)
       IN [X |-> Append(d.X, PointOf(d.rng)), rng |-> NextRng(d.rng)]

StateOf(iter, n_iterations) ==
  IF iter >= n_iterations THEN "Finished"
  ELSE IF iter = 0 THEN "Initialised" ELSE "Running"

\* initializeOptimization(): initial design, the objective on each of its
\* points, the surrogate fitted.
InitializeOptimization(o) ==
  LET d == Design(o.rng, o.par.n_init_samples)
      Y == [i \in 1 .. Len(d.X) |-> Objective(d.X[i])]
  IN [o EXCEPT !.st = "Initialised", !.mCurrentIter = 0, !.mCounterStuck = 0,
               !.mYPrev = 0, !.mX = d.X, !.mY = Y, !.rng = d.rng,
               !.hp = LearnHp(d.X, Y), !.mu = LearnMu(Y),
               !.evals = o.evals + Len(d.X)]

\* The criterion's maximiser found by the inner optimiser: the least visited
\* point, ties broken by the hyperparameter and the iteration.
Score(X, hp, iter, x) == 4 * Count(X, x) + ((IndexOf(x) + hp + iter) % 4)
ArgMaxCriterion(X, hp, iter) ==
  CHOOSE x \in Points : \A z \in Points : Score(X, hp, iter, x) <= Score(X, hp, iter, z)

\* stepOptimization(): relearn at the cadence, propose a point (a random one
\* when the run is stuck or the exploration draw says so), evaluate the
\* objective, update the surrogate, count the iteration.
RelearnEveryStep(o) == o.par.n_iter_relearn > 0

\* Whether the step about to be taken relearns the hyperparameters.
Relearn(o) ==
  /\ o.par.n_iter_relearn > 0
  /\ (o.mCurrentIter + 1) % o.par.n_iter_relearn = 0

StepOptimization(o) ==
  LET relearn == Relearn(o)
      hp1 == IF relearn THEN LearnHp(o.mX, o.mY) ELSE o.hp
      mu1 == IF relearn THEN LearnMu(o.mY) ELSE o.mu
      forced == o.mCounterStuck > ForceJump
      explore == forced \/ o.rng % 4 = 0
      r1 == NextRng(o.rng)
      x == IF explore THEN PointOf(r1) ELSE ArgMaxCriterion(o.mX, hp1, o.mCurrentIter)
      r2 == IF explore THEN NextRng(r1) ELSE r1
      y == Objective(x)
      it == o.mCurrentIter + 1
  IN [o EXCEPT !.st = StateOf(it, o.par.n_iterations),
               !.mCurrentIter = it,
               !.mCounterStuck = IF forced THEN 0
                                 ELSE IF y = o.mYPrev THEN o.mCounterStuck + 1 ELSE 0,
               !.mYPrev = y, !.mX = Append(o.mX, x), !.mY = Append(o.mY, y),
               !.rng = r2, !.hp = hp1, !.mu = mu1, !.evals = o.evals + 1]

GetCurrentIter(o) == o.mCurrentIter

\* getFinalResult(): the best point observed and its value.
GetFinalResult(o) ==
  LET best == CHOOSE i \in 1 .. Len(o.mY) :
                /\ \A j \in 1 .. Len(o.mY) : o.mY[i] <= o.mY[j]
                /\ \A j \in 1 .. (i - 1) : o.mY[j] > o.mY[i]
  IN <<o.mX[best], o.mY[best]>>

(***************************************************************************)
(* The snapshot: key-value lines; the sample matrix is written row after   *)
(* row with its number of rows.                                            *)
(***************************************************************************)
RECURSIVE Flatten(_)
Flatten(X) ==
  IF X = <<>> THEN <<>> ELSE Flatten(SubSeq(X, 1, Len(X) - 1)) \o X[Len(X)]

UnflattenByColumn(flat, rows) ==
  [i \in 1 .. rows |-> <<flat[i], flat[rows + i]>>]

Unflatten(flat, rows) ==
  [i \in 1 .. rows |-> <<flat[2 * i - 1], flat[2 * i]>>]

SaveOptimization(o) ==
  [version |-> 1,
   mCurrentIter |-> o.mCurrentIter,
   mCounterStuck |-> o.mCounterStuck,
   mYPrev |-> o.mYPrev,
   mParameters |-> o.par,
   hp |-> o.hp,
   mu |-> o.mu,
   mXrows |-> Len(o.mX),
   mX |-> Flatten(o.mX),
   mY |-> o.mY,
   rng |-> o.rng]

NoState == SaveOptimization(NoOptimizer)

\* restoreOptimization(state): every persisted field is taken from the
\* snapshot and the surrogate is fitted to the restored samples.
RestoreOptimization(o, s) ==
  [o EXCEPT !.st = StateOf(s.mCurrentIter, s.mParameters.n_iterations),
            !.par = s.mParameters,
            !.mCurrentIter = s.mCurrentIter,
            !.mCounterStuck = s.mCounterStuck,
            !.mYPrev = s.mYPrev,
            !.mX = Unflatten(s.mX, s.mXrows),
            !.mY = s.mY,
            !.rng = s.rng,
            !.hp = s.hp,
            !.mu = s.mu]

(***************************************************************************)
(* The test program.  par1 and par2 are set to the same values; the stop   *)
(* point, n_iterations/2 in the test, is any iteration of the run.         *)
(***************************************************************************)
Par1 == par.p
Par2 == par.p
StopAt == par.stopAt

\* The condition of the two for loops.
LoopContinuesInclusive(i, bound) == i <= bound
LoopContinues(i, bound) == i < bound

\* The start of the resumed loop.
ResumeFromZero(o) == 0
ResumeFrom(o) == GetCurrentIter(o)

InitLoop ==
  /\ par \in [p : Params, stopAt : 0 .. MaxIter]
  /\ par.stopAt <= par.p.n_iterations
  /\ \E r \in SeedRng(Par1.random_seed) : ref = NewOptimizer(Par1, r)
  /\ \E r \in SeedRng(Par1.random_seed) : branin1 = NewOptimizer(Par1, r)
  /\ branin2 = NoOptimizer
  /\ state = NoState
  /\ pcA = "init" /\ iA = 0
  /\ pcB = "init" /\ iB = 0
  /\ lastL = "new"

\* The loop variables while another component is looked at.
LoopIdle ==
  /\ par = [p |-> CHOOSE p \in Params : TRUE, stopAt |-> 0]
  /\ ref = NoOptimizer
  /\ branin1 = NoOptimizer
  /\ branin2 = NoOptimizer
  /\ state = NoState
  /\ pcA = "done" /\ iA = 0
  /\ pcB = "done" /\ iB = 0
  /\ lastL = "none"

\* The uninterrupted run: initializeOptimization, then n_iterations steps.
RefInit ==
  /\ pcA = "init"
  /\ ref' = InitializeOptimization(ref)
  /\ iA' = GetCurrentIter(ref')
  /\ pcA' = "loop"
  /\ lastL' = "ref.init"
  /\ UNCHANGED <<par, branin1, branin2, state, pcB, iB>>

RefStep ==
  /\ pcA = "loop"
  /\ LoopContinues(iA, Par1.n_iterations)
  /\ ref' = StepOptimization(ref)
  /\ iA' = iA + 1
  /\ lastL' = "ref.step"
  /\ UNCHANGED <<par, branin1, branin2, state, pcA, pcB, iB>>

RefEnd ==
  /\ pcA = "loop"
  /\ ~LoopContinues(iA, Par1.n_iterations)
  /\ pcA' = "done"
  /\ lastL' = "ref.end"
  /\ UNCHANGED <<par, ref, branin1, branin2, state, iA, pcB, iB>>

\* main: branin1.initializeOptimization(); i = branin1.getCurrentIter().
Init1 ==
  /\ pcB = "init"
  /\ branin1' = InitializeOptimization(branin1)
  /\ iB' = GetCurrentIter(branin1')
  /\ pcB' = "loop1"
  /\ lastL' = "branin1.init"
  /\ UNCHANGED <<par, ref, branin2, state, pcA, iA>>

\* main: for (...; i < stopAt; i++) branin1.stepOptimization().
Step1 ==
  /\ pcB = "loop1"
  /\ LoopContinues(iB, StopAt)
  /\ branin1' = StepOptimization(branin1)
  /\ iB' = iB + 1
  /\ lastL' = "branin1.step"
  /\ UNCHANGED <<par, ref, branin2, state, pcA, iA, pcB>>

\* main: branin1.saveOptimization(state).
Save1 ==
  /\ pcB = "loop1"
  /\ ~LoopContinues(iB, StopAt)
  /\ state' = SaveOptimization(branin1)
  /\ pcB' = "new2"
  /\ lastL' = "branin1.save"
  /\ UNCHANGED <<par, ref, branin1, branin2, pcA, iA, iB>>

\* main: BraninNormalized branin2(par2).
New2 ==
  /\ pcB = "new2"
  /\ \E r \in SeedRng(Par2.random_seed) : branin2' = NewOptimizer(Par2, r)
  /\ pcB' = "restore"
  /\ lastL' = "branin2.new"
  /\ UNCHANGED <<par, ref, branin1, state, pcA, iA, iB>>

\* main: branin2.restoreOptimization(state); i = branin2.getCurrentIter().
Restore2 ==
  /\ pcB = "restore"
  /\ branin2' = RestoreOptimization(branin2, state)
  /\ iB' = ResumeFrom(branin2')
  /\ pcB' = "loop2"
  /\ lastL' = "branin2.restore"
  /\ UNCHANGED <<par, ref, branin1, state, pcA, iA>>

\* main: for (...; i < par2.n_iterations; i++) branin2.stepOptimization().
Step2 ==
  /\ pcB = "loop2"
  /\ LoopContinues(iB, Par2.n_iterations)
  /\ branin2' = StepOptimization(branin2)
  /\ iB' = iB + 1
  /\ lastL' = "branin2.step"
  /\ UNCHANGED <<par, ref, branin1, state, pcA, iA, pcB>>

End2 ==
  /\ pcB = "loop2"
  /\ ~LoopContinues(iB, Par2.n_iterations)
  /\ pcB' = "done"
  /\ lastL' = "branin2.end"
  /\ UNCHANGED <<par, ref, branin1, branin2, state, pcA, iA, iB>>

DoRefInit == RefInit /\ UNCHANGED notLoop
DoRefStep == RefStep /\ UNCHANGED notLoop
DoRefEnd == RefEnd /\ UNCHANGED notLoop
DoInit1 == Init1 /\ UNCHANGED notLoop
DoStep1 == Step1 /\ UNCHANGED notLoop
DoSave1 == Save1 /\ UNCHANGED notLoop
DoNew2 == New2 /\ UNCHANGED notLoop
DoRestore2 == Restore2 /\ UNCHANGED notLoop
DoStep2 == Step2 /\ UNCHANGED notLoop
DoEnd2 == End2 /\ UNCHANGED notLoop

(***************************************************************************)
(* The discrete variant.  The candidates are a list of grid points; the    *)
(* loop is that of the continuous variant with every proposal taken from   *)
(* the list.                                                               *)
(***************************************************************************)
MaxSet == 3         \* longest list of candidates

ValidSets == UNION {[1 .. n -> Points] : n \in 1 .. MaxSet}

\* BayesOptDiscrete(validSet, params).
NewDiscrete(validSet, p, r) ==
  [mInputSet |-> validSet, par |-> p, mX |-> <<>>, mY |-> <<>>, rng |-> r,
   drawn |-> 0, mCurrentIter |-> 0, proposed |-> <<>>, evaluated |-> <<>>,
   bestPoint |-> <<>>, ret |-> 0 - 1]

InSeq(q, x) == \E i \in 1 .. Len(q) : q[i] = x

\* A proposal is evaluated, and stored as a sample, unless the objective
\* has been evaluated at it before.
Propose(d, x) ==
  IF InSeq(d.mX, x)
    THEN [d EXCEPT !.proposed = Append(d.proposed, x)]
    ELSE [d EXCEPT !.proposed = Append(d.proposed, x),
                   !.evaluated = Append(d.evaluated, x),
                   !.mX = Append(d.mX, x),
                   !.mY = Append(d.mY, Objective(x))]

\* One draw of sampleRandomPoints: an entry of the list picked with the
\* engine.
SampleAnyPoint(d) == PointOf(d.rng)
SampleRandomPoint(d) == d.mInputSet[(d.rng % Len(d.mInputSet)) + 1]

\* findOptimal: the entry of the list with the best criterion value, the
\* first of them in list order.
FindOptimal(d) ==
  LET S == d.mInputSet
      sc(i) == Score(d.mX, 0, d.mCurrentIter, S[i])
      best == CHOOSE i \in 1 .. Len(S) :
                /\ \A j \in 1 .. Len(S) : sc(i) <= sc(j)
                /\ \A j \in 1 .. (i - 1) : sc(j) > sc(i)
  IN S[best]

InitDisc ==
  /\ \E validSet \in ValidSets, r \in 0 .. 7,
        p \in [n_iterations : 1 .. MaxIter, n_init_samples : 1 .. MaxInit] :
       disc = NewDiscrete(validSet, p, r)
  /\ pcD = "sample"

DiscIdle ==
  /\ disc = NewDiscrete(<<PointOf(0)>>, [n_iterations |-> 1, n_init_samples |-> 1], 0)
  /\ pcD = "idle"

\* optimize(): sampleRandomPoints(n_init_samples), ...
DiscSample ==
  /\ pcD = "sample"
  /\ LET d == [Propose(disc, SampleRandomPoint(disc)) EXCEPT
                 !.rng = NextRng(disc.rng), !.drawn = disc.drawn + 1]
     IN /\ disc' = d
        /\ pcD' = IF d.drawn >= d.par.n_init_samples THEN "step" ELSE "sample"

\* ... n_iterations times findOptimal and the objective at what it found, ...
DiscStep ==
  /\ pcD = "step"
  /\ disc.mCurrentIter < disc.par.n_iterations
  /\ disc' = [Propose(disc, FindOptimal(disc)) EXCEPT
                !.mCurrentIter = disc.mCurrentIter + 1]
  /\ pcD' = "step"

\* ... and the best point observed is returned in bestPoint.
DiscEnd ==
  /\ pcD = "step"
  /\ disc.mCurrentIter >= disc.par.n_iterations
  /\ disc' = [disc EXCEPT
                !.bestPoint = (GetFinalResult([mX |-> disc.mX, mY |-> disc.mY]))[1],
                !.ret = 1]
  /\ pcD' = "done"

DoDiscSample == DiscSample /\ UNCHANGED notDisc
DoDiscStep == DiscStep /\ UNCHANGED notDisc
DoDiscEnd == DiscEnd /\ UNCHANGED notDisc

(***************************************************************************)
(* setMean(muv, smu, m_name, dim).  Coefficients are small integers; the   *)
(* standard deviation 1e-10 is the value TinyStd of that scale.            *)
(***************************************************************************)
MaxCoef == 2        \* longest coefficient vector given to setMean
TinyStd == 0

CoefVals == 1 .. 3
CoefVectors == UNION {[1 .. n -> CoefVals] : n \in 1 .. MaxCoef}
SetMeanNames == {"mZero", "mOne", "mConst", "mBogus"}

\* mPFactory.create(m_name, dim): the object for a registered name, NULL
\* for any other.
MeanCreate(m_name) == IF m_name \in MeanRegistry THEN m_name ELSE "NULL"

\* mMean->setParameters(theta): the atomic means take their coefficients.
SetParameters(mean, theta) == 0

MOp(name, ret) == [name |-> name, ret |-> ret]

SetMean(muv, smu, m_name) ==
  /\ mMean' = MeanCreate(m_name)
  /\ IF m_name = "mZero"
     THEN mMu' = <<0>> /\ mS_Mu' = <<TinyStd>>
     ELSE IF m_name = "mOne"
     THEN mMu' = <<1>> /\ mS_Mu' = <<TinyStd>>
     ELSE mMu' = muv /\ mS_Mu' = smu
  /\ lastM' = MOp(m_name, IF mMean' = "NULL" THEN 0 - 1
                           ELSE SetParameters(mMean', mMu'))

\* The mean state the constructor leaves: setMean(parameters.mean, dim)
\* returned 0.
InitMean ==
  /\ \E muv \in CoefVectors, smu \in CoefVectors :
       \/ mMean = "mZero" /\ mMu = <<0>> /\ mS_Mu = <<TinyStd>>
       \/ mMean = "mConst" /\ mMu = muv /\ mS_Mu = smu
  /\ lastM = MOp(mMean, 0)

MeanIdle ==
  /\ mMean = "mZero" /\ mMu = <<0>> /\ mS_Mu = <<TinyStd>>
  /\ lastM = MOp("mZero", 0)

DoSetMean ==
  /\ \E muv \in CoefVectors, smu \in CoefVectors, m_name \in SetMeanNames :
       SetMean(muv, smu, m_name)
  /\ UNCHANGED notMean

(***************************************************************************)
(* Kernel hyperparameters: setScale(theta) and getScale() of the isotropic *)
(* and the ARD kernels.  theta has at least one entry.                     *)
(***************************************************************************)
MaxTheta == 3       \* longest theta given to setScale
MaxDim == 2         \* largest input dimension

ThetaVals == 1 .. 3
Thetas == UNION {[1 .. n -> ThetaVals] : n \in 1 .. MaxTheta}

\* The number of hyperparameters of the kernel: one for an isotropic
\* kernel, one per input dimension for an ARD kernel.
NHp(k, d) == IF k = "ISO" THEN 1 ELSE d

KOp(op, theta, rejected) == [op |-> op, theta |-> theta, rejected |-> rejected]

\* ISOkernel::setScale: mTheta = theta(0).  ARDkernel::setScale: mTheta =
\* theta.  Both return nothing.
SetScale(theta) ==
  /\ mTheta' = IF kind = "ISO" THEN theta[1] ELSE theta
  /\ lastK' = KOp("setScale", theta, FALSE)
  /\ UNCHANGED <<kind, kdim>>

\* getScale(): svectord(1, mTheta) for ISO, mTheta for ARD.
GetScale == IF kind = "ISO" THEN <<mTheta>> ELSE mTheta

\* A kernel as configured: its count of hyperparameters matches.
InitKernel ==
  /\ kind \in {"ISO", "ARD"}
  /\ kdim \in 1 .. MaxDim
  /\ \E theta \in Thetas :
       /\ Len(theta) = NHp(kind, kdim)
       /\ mTheta = IF kind = "ISO" THEN theta[1] ELSE theta
       /\ lastK = KOp("new", theta, FALSE)

KernelIdle ==
  /\ kind = "ISO" /\ kdim = 1 /\ mTheta = 1
  /\ lastK = KOp("new", <<1>>, FALSE)

DoSetScale == (\E theta \in Thetas : SetScale(theta)) /\ UNCHANGED notKern

(***************************************************************************)
(* The specifications.                                                     *)
(***************************************************************************)
InitL == InitLoop /\ SurrogateIdle /\ FactoryIdle /\ DiscIdle /\ MeanIdle /\ KernelIdle

NextL ==
  \/ DoRefInit \/ DoRefStep \/ DoRefEnd
  \/ DoInit1 \/ DoStep1 \/ DoSave1 \/ DoNew2 \/ DoRestore2 \/ DoStep2 \/ DoEnd2

SpecLoop == InitL /\ [][NextL]_vars

InitF == InitFactory /\ SurrogateIdle /\ LoopIdle /\ DiscIdle /\ MeanIdle /\ KernelIdle

NextF == DoCreateSurrogate \/ DoSetKernel

SpecFactory == InitF /\ [][NextF]_vars


InitD == InitDisc /\ SurrogateIdle /\ FactoryIdle /\ LoopIdle /\ MeanIdle /\ KernelIdle

NextD == DoDiscSample \/ DoDiscStep \/ DoDiscEnd

SpecDisc == InitD /\ [][NextD]_vars

InitM == InitMean /\ SurrogateIdle /\ FactoryIdle /\ LoopIdle /\ DiscIdle /\ KernelIdle

NextM == DoSetMean

SpecMean == InitM /\ [][NextM]_vars

InitK == InitKernel /\ SurrogateIdle /\ FactoryIdle /\ LoopIdle /\ DiscIdle /\ MeanIdle

NextK == DoSetScale

SpecScale == InitK /\ [][NextK]_vars

Init == InitSurrogate /\ FactoryIdle /\ LoopIdle /\ DiscIdle /\ MeanIdle /\ KernelIdle

Next == DoSetSamples \/ DoAddSample \/ DoUpdate \/ DoFit \/ DoFitXY

Spec == Init /\ [][Next]_vars

\* The surrogate as the loop uses it: setSamples once on the new object,
\* then fits, added samples and updates.
Constructed == lastOp.op = "new"

LifeSetSamples == Constructed /\ DoSetSamples
LifeAddSample == ~Constructed /\ DoAddSample
LifeFit == ~Constructed /\ DoFit
LifeUpdate == ~Constructed /\ DoUpdate

NextLife == LifeSetSamples \/ LifeAddSample \/ LifeFit \/ LifeUpdate

SpecLife == Init /\ [][NextLife]_vars

(***************************************************************************)
(* Claims on the surrogate, checked under Spec.                            *)
(***************************************************************************)
IsPrefix(s, t) == Len(s) <= Len(t) /\ \A i \in 1 .. Len(s) : t[i] = s[i]

AppendOps == {"addSample", "update", "fitxy"}

\* C5: the sample set is an insertion-ordered sequence that never shrinks:
\* no step removes or changes a stored input or output, every addSample,
\* update and fit(x, y) appends exactly the pair it was given, and
\* getLastSample then returns that pair.
C5_SamplesAppendOnly ==
  [][/\ IsPrefix(mGPXX, mGPXX')
     /\ IsPrefix(mGPY, mGPY')
     /\ lastOp'.op \in AppendOps =>
          /\ mGPXX' = Append(mGPXX, lastOp'.x)
          /\ mGPY' = Append(mGPY, lastOp'.y)
          /\ Len(mGPY') <= Len(mGPXX')
          /\ GetLastSample' = <<lastOp'.x, lastOp'.y>>]_vars

\* C6: an update whose rank-1 append lost positive-definiteness does not
\* return success over the unrepaired factor: whenever update returns 0 the
\* factor has a positive pivot in every row (it was refactorised), and
\* otherwise the failure is reported.
C6_FailedAppendRecovered ==
  (lastOp.op = "update" /\ lastOp.returned /\ lastOp.ret = 0) => FactorPositive(mL)

InsertedDuplicate ==
  /\ lastOp.op \in {"update", "fitxy"}
  /\ \E i \in 1 .. (Len(mGPXX) - 1) : mGPXX[i] = lastOp.x

\* C7: with a zero nugget, inserting an input that duplicates a stored one
\* is reported as a numerical error on the fit path and on the update path:
\* the call never returns success.
C7_DuplicateZeroNuggetReported ==
  (mRegularizer = 0 /\ InsertedDuplicate) => (exited \/ lastOp.ret # 0)

FitOps == {"fit", "fitxy"}

\* C8: fit() refactorises over all stored inputs and, when the regularised
\* correlation matrix is not positive definite or the predictive
\* precomputation fails, returns a failure value to its caller; the process
\* is not ended.
C8_FitReturnsFailure ==
  lastOp.op \in FitOps =>
    /\ Len(mL) = Len(mGPXX)
    /\ ~exited
    /\ (~FactorPositive(mL) \/ cache.error # 0) => (lastOp.returned /\ lastOp.ret # 0)

(***************************************************************************)
(* Claims on the factories, checked under SpecFactory.                     *)
(***************************************************************************)
SurrNames ==
  {"sGaussianProcess", "sGaussianProcessML", "sGaussianProcessNormal",
   "sStudentTProcessJef", "sStudentTProcessNIG"}

\* C9: the surrogate factory accepts exactly the five surrogate names: GP,
\* GP-ML, GP-Normal and StudentT-NIG each yield their own class,
\* StudentT-Jef yields the class of StudentT-NIG, and any other name yields
\* NULL with no constructor run and nothing allocated.
C9_SurrogateFactory ==
  lastF.op = "create" =>
    /\ lastF.name \in SurrNames => lastF.ctor
    /\ (lastF.name \in SurrNames /\ lastF.outcome = "returned") =>
         /\ lastF.name = "sGaussianProcess" => s_ptr = "GaussianProcess"
         /\ lastF.name = "sGaussianProcessML" => s_ptr = "GaussianProcessML"
         /\ lastF.name = "sGaussianProcessNormal" => s_ptr = "GaussianProcessNormal"
         /\ lastF.name = "sStudentTProcessNIG" => s_ptr = "StudentTProcessNIG"
         /\ lastF.name = "sStudentTProcessJef" => s_ptr = "StudentTProcessNIG"
    /\ lastF.name \notin SurrNames =>
         /\ s_ptr = "NULL"
         /\ lastF.outcome = "returned"
         /\ ~lastF.ctor
         /\ lastF.allocs = 0

C9_Witness ==
  /\ lastF.op = "create"
  /\ lastF.name = "sStudentTProcessJef"
  /\ lastF.outcome = "returned"
  /\ s_ptr = "StudentTProcessNIG"

\* C10: building a kernel from an expression with an unregistered name at
\* any node throws, leaves the installed kernel as it was, and leaves no
\* node of the partial build allocated.
C10_KernelBuildNoSideEffects ==
  [][(lastF'.op \in {"setKernel", "create"} /\ lastF'.bad) =>
       /\ lastF'.outcome = "threw"
       /\ mKernel' = mKernel
       /\ leaked' = leaked]_vars

(***************************************************************************)
(* Claims on the optimisation loop, checked under SpecLoop.                *)
(***************************************************************************)
Seeded == par.p.random_seed >= 0

Persisted(o) ==
  [mCurrentIter |-> o.mCurrentIter, mCounterStuck |-> o.mCounterStuck,
   mYPrev |-> o.mYPrev, par |-> o.par, hp |-> o.hp, mu |-> o.mu,
   mX |-> o.mX, mY |-> o.mY, rng |-> o.rng]

Optimizer(i) == IF i = 1 THEN ref ELSE IF i = 2 THEN branin1 ELSE branin2
StepNames == <<"ref.step", "branin1.step", "branin2.step">>
Started == {"Initialised", "Running", "Finished"}

C3_Inv ==
  /\ \A i \in 1 .. 3 :
       LET o == Optimizer(i)
       IN o.st \in Started =>
            /\ o.mCurrentIter <= o.par.n_iterations
            /\ o.st = "Finished" <=> o.mCurrentIter = o.par.n_iterations
            /\ Len(o.mX) = o.par.n_init_samples + o.mCurrentIter
  /\ pcA = "done" =>
       /\ ref.st = "Finished"
       /\ ref.evals = Par1.n_init_samples + Par1.n_iterations
  /\ pcB = "done" =>
       /\ branin2.st = "Finished"
       /\ branin1.evals + branin2.evals = Par1.n_init_samples + Par1.n_iterations
  /\ pcA = "loop" => iA = GetCurrentIter(ref) /\ iA <= Par1.n_iterations
  /\ pcB = "loop1" => iB = GetCurrentIter(branin1) /\ iB <= StopAt
  /\ pcB = "loop2" => iB = GetCurrentIter(branin2) /\ iB <= Par2.n_iterations

C3_Act ==
  \A i \in 1 .. 3 :
    LET o == Optimizer(i)
        n == Optimizer(i)'
    IN /\ n # o =>
            \/ o.st = "None" /\ n.st = "Uninitialised"
            \/ o.st = "Uninitialised" /\ n.st = "Initialised" /\ lastL' # StepNames[i]
            \/ o.st = "Uninitialised" /\ n.st \in Started /\ lastL' = "branin2.restore"
            \/ o.st \in {"Initialised", "Running"} /\ n.st \in {"Running", "Finished"}
                 /\ lastL' = StepNames[i]
       /\ lastL' = StepNames[i] =>
            /\ o.st \in {"Initialised", "Running"}
            /\ n.mCurrentIter = o.mCurrentIter + 1
            /\ n.evals = o.evals + 1
            /\ n.mX = Append(o.mX, n.mX[Len(n.mX)])
            /\ n.mY = Append(o.mY, n.mY[Len(n.mY)])

InitialHp(o) ==
  LearnHp(SubSeq(o.mX, 1, o.par.n_init_samples), SubSeq(o.mY, 1, o.par.n_init_samples))

Candidates == {disc.mInputSet[i] : i \in 1 .. Len(disc.mInputSet)}

RowOfSample(i) ==
  [j \in 1 .. i |-> IF j < i THEN Corr(mGPXX[j], mGPXX[i])
                               ELSE Corr(mGPXX[i], mGPXX[i]) + mRegularizer]

\* C13: after setSamples, a fit and any updates, the factor has one row per
\* stored sample, row i built from sample i against the samples before it,
\* and the inputs, the outputs, the mean vector and the feature columns
\* have the same count as the factor's rows.
C13_FactorFollowsSamples ==
  lastOp.op = "update" =>
    /\ Len(mL) = Len(mGPXX)
    /\ Len(mGPY) = Len(mGPXX)
    /\ Len(mMeanV) = Len(mGPXX)
    /\ Len(mFeatM) = Len(mGPXX)
    /\ \A i \in 1 .. Len(mL) : mL[i].v = RowOfSample(i)

C13_Witness ==
  /\ lastOp.op = "update"
  /\ Len(mL) = MaxSamples
  /\ mGPXX[Len(mGPXX) - 1] # mGPXX[Len(mGPXX)]
  /\ ~exited

(***************************************************************************)
(* More claims on the surrogate, checked under Spec.                       *)
(***************************************************************************)
\* C14: after any setSamples and addSample calls there are as many stored
\* inputs as stored outputs: setSamples leaves exactly the design it was
\* given, on an empty surrogate or not, and addSample appends one pair to
\* what is stored.
C14_SamplesAreLastDesignPlusAdded ==
  [][/\ lastOp'.op = "setSamples" =>
          \E d \in Designs : mGPXX' = d.xs /\ mGPY' = d.ys
     /\ lastOp'.op = "addSample" =>
          /\ mGPXX' = Append(mGPXX, lastOp'.x)
          /\ mGPY' = Append(mGPY, lastOp'.y)
     /\ lastOp'.op \in {"setSamples", "addSample"} => Len(mGPXX') = Len(mGPY')]_vars

\* C15: observed bounds under append (checked under SpecLife).  Once
\* setSamples has run and samples are stored, after any addSample and update
\* calls both indices are positions of stored outputs, the output at the
\* min index is <= every stored output and the output at the max index is
\* >= every stored output.
C15_BoundsMaintained ==
  (~Constructed /\ Len(mGPY) > 0) =>
    /\ mMinIndex \in 0 .. (Len(mGPY) - 1)
    /\ mMaxIndex \in 0 .. (Len(mGPY) - 1)
    /\ \A j \in 1 .. Len(mGPY) :
         /\ mGPY[mMinIndex + 1] <= mGPY[j]
         /\ mGPY[mMaxIndex + 1] >= mGPY[j]

C15_Witness ==
  /\ lastOp.op \in {"addSample", "update"}
  /\ Len(mGPY) = 3
  /\ mMinIndex = 2
  /\ mMaxIndex = 1
  /\ mGPY[3] < mGPY[1] /\ mGPY[1] < mGPY[2]

\* C16: update and fit treat a precomputation failure alike (checked under
\* Spec).  Whenever fit or update returns 0 the predictive precomputation
\* ran without error on the factor that is stored, one row per stored input.
C16_UpdateAbortsAsFit ==
  (lastOp.op \in {"fit", "fitxy", "update"} /\ lastOp.returned /\ lastOp.ret = 0) =>
    /\ cache.error = 0
    /\ cache.rows = Len(mL)
    /\ Len(mL) = Len(mGPXX)

(***************************************************************************)
(* Claims on setMean, checked under SpecMean.                              *)
(***************************************************************************)
\* C17: setMean with a name that is not registered returns an error and
\* leaves the mean function object, the coefficient means and the
\* coefficient standard deviations as they were; for mZero (mOne) the
\* coefficients given are replaced by the coefficient 0 (1) with standard
\* deviation 1e-10.
C17_SetMeanUnknownName ==
  [][/\ lastM'.name \notin MeanRegistry =>
          /\ lastM'.ret # 0
          /\ UNCHANGED <<mMean, mMu, mS_Mu>>
     /\ lastM'.name = "mZero" => mMu' = <<0>> /\ mS_Mu' = <<TinyStd>>
     /\ lastM'.name = "mOne" => mMu' = <<1>> /\ mS_Mu' = <<TinyStd>>]_vars

(***************************************************************************)
(* Claims on the kernel hyperparameters, checked under SpecScale.          *)
(***************************************************************************)
\* C18: set/get round trip and count check.  After setScale(theta) with as
\* many values as the kernel has hyperparameters, getScale() is theta; a
\* theta of any other length is rejected and not stored, in whole or in
\* part.
C18_ScaleRoundTrip ==
  lastK.op = "setScale" =>
    IF Len(lastK.theta) = NHp(kind, kdim)
    THEN GetScale = lastK.theta /\ ~lastK.rejected
    ELSE lastK.rejected

====
